---- MODULE Spec2Model ----
(***************************************************************************)
(* Model of kunai's src/util.rs: thin, error-returning wrappers around     *)
(* libc / kernel facilities (clock_gettime, sysconf, getrandom, kill,      *)
(* getrlimit/setrlimit) and the LSM probe.                                 *)
(*                                                                         *)
(* 64-bit machine words are modelled bit-exactly as the set of positions   *)
(* of their 1 bits (a subset of 0..63); a set with positions >= 64 is an   *)
(* unbounded natural, used for the mathematically exact value of an        *)
(* expression before it is reduced to the register width.                  *)
(***************************************************************************)
EXTENDS Integers, Sequences, FiniteSets

VARIABLES
    build,      \* "debug" (overflow checks on) or "release" (wrapping)
    call,       \* the caller's current / last wrapper call and its outcome
    ps_pc,      \* page_shift(): "idle" | "loop"
    ps_size,    \* page_shift(): local page_size
    ps_shift,   \* page_shift(): local page_shift (u64 counter)
    klimit,     \* kernel: resource -> (soft, hard) limit pair of the process
    c_pc,       \* concurrent rlimit callers: position of each caller
    c_got,      \* ... what its getrlimit returned
    c_arg,      \* ... the pair it passes to setrlimit
    c_set,      \* ... what its setrlimit returned
    c_regot,    \* ... what its second getrlimit returned
    c_stale,    \* history: the kernel pair differed from c_got when it set
    c_intf,     \* history: another caller changed the limit in its window
    lsm_file,   \* /sys/kernel/security/lsm: content, or unreadable
    rnd         \* getrandom::<T>(): size, kernel rc, buffer, calls, result

vars == <<build, call, ps_pc, ps_size, ps_shift, klimit, c_pc, c_got, c_arg,
          c_set, c_regot, c_stale, c_intf, lsm_file, rnd>>

(***************************************************************************)
(* Machine words                                                           *)
(***************************************************************************)
\* width of i64 / u64 / libc::c_long / time_t on the target
Bits == 64

SetMax(S) == CHOOSE m \in S : \A x \in S : x <= m

\* the bits of a small natural (below 2^31)
BitsOf(n) == {i \in 0..30 : (n \div (2^i)) % 2 = 1}

RECURSIVE AddFrom(_, _, _, _, _)
\* ripple-carry addition from position i with carry-in c
AddFrom(a, b, i, c, top) ==
    IF i > top THEN {}
    ELSE LET n == (IF i \in a THEN 1 ELSE 0) + (IF i \in b THEN 1 ELSE 0)
                  + (IF c THEN 1 ELSE 0)
         IN (IF n % 2 = 1 THEN {i} ELSE {}) \cup AddFrom(a, b, i + 1, n >= 2, top)

\* exact a + b on naturals
Add(a, b) == AddFrom(a, b, 0, FALSE, SetMax(a \cup b \cup {0}) + 1)

Shl(a, k) == {i + k : i \in a}

RECURSIVE Mul(_, _)
\* exact a * b on naturals (shift and add)
Mul(a, b) ==
    IF b = {} THEN {}
    ELSE LET k == SetMax(b) IN Add(Shl(a, k), Mul(a, b \ {k}))

\* reduction to the register width, and whether it loses anything
Wrap(x) == {i \in x : i < Bits}
Overflows(x) == \E i \in x : i >= Bits

\* unsigned and signed (two's complement) order on words
ULt(a, b) == a # b /\ SetMax((a \ b) \cup (b \ a)) \in b
Flip(a) == IF (Bits - 1) \in a THEN a \ {Bits - 1} ELSE a \cup {Bits - 1}
SLt(a, b) == ULt(Flip(a), Flip(b))
IsNeg(a) == (Bits - 1) \in a

\* -1 as an i64
MinusOne == 0..(Bits - 1)

(***************************************************************************)
(* Results                                                                 *)
(***************************************************************************)
Ok(v) == [kind |-> "Ok", val |-> v]
Err(e) == [kind |-> "Err", err |-> e]
Panic == [kind |-> "Panic"]
Pending == [kind |-> "Pending"]
Idle == [fn |-> "none", res |-> [kind |-> "None"]]

\* a panic unwinds the calling thread: nothing runs after it
Panicked == call.res.kind = "Panic"

(***************************************************************************)
(* TimeSource: ktime_get_ns                                                *)
(***************************************************************************)
Builds == {"debug", "release"}

\* 1_000_000_000
NSEC_PER_SEC == 1000000000

\* seconds values the kernel may store in timespec.tv_sec (i64)
SecSamples ==
    { {}, BitsOf(1), BitsOf(2),
      Add(Mul(BitsOf(9), BitsOf(NSEC_PER_SEC)), BitsOf(223372036)),
      Add(Mul(BitsOf(18), BitsOf(NSEC_PER_SEC)), BitsOf(446744073)),
      Add(Mul(BitsOf(18), BitsOf(NSEC_PER_SEC)), BitsOf(446744074)) }

\* nanoseconds values the kernel may store in timespec.tv_nsec
NsecSamples == { {}, BitsOf(1), BitsOf(709551615), BitsOf(709551616),
                 BitsOf(999999999) }

Readings == [tv_sec : SecSamples, tv_nsec : NsecSamples]

\* std::mem::zeroed()
ZeroedTimespec == [tv_sec |-> {}, tv_nsec |-> {}]

ClockErrnos == {"EINVAL", "EFAULT"}

\* `x as u64` of an i64: the same 64 bits, read as unsigned
AsU64(w) == Wrap(w)

\* a u64 operation whose exact value is x: overflow checks panic in a debug
\* build, a release build keeps the low 64 bits
Checked(bld, x) ==
    IF Overflows(x) /\ bld = "debug" THEN Panic ELSE Ok(Wrap(x))

ktime_get_ns(bld, result, ts, errno) ==
    IF result = 0
    THEN LET prod == Checked(bld, Mul(AsU64(ts.tv_sec), BitsOf(NSEC_PER_SEC)))
         IN IF prod.kind = "Panic" THEN Panic
            ELSE Checked(bld, Add(prod.val, AsU64(ts.tv_nsec)))
    ELSE Err(errno)

\* ktime_get_ns on every successful reading, evaluated once
KtimeTable ==
    {[bld |-> b, ts |-> ts, res |-> ktime_get_ns(b, 0, ts, "none")] :
        b \in Builds, ts \in Readings}

KtimeOf(bld, ts) == (CHOOSE e \in KtimeTable : e.bld = bld /\ e.ts = ts).res

\* the caller's last successful ktime_get_ns, kept to compare two calls
PrevKtime ==
    IF call.fn # "ktime_get_ns" THEN << >>
    ELSE IF call.res.kind = "Ok" THEN << [ts |-> call.ts, res |-> call.res.val] >>
    ELSE call.prev

CanCall == ~Panicked /\ ps_pc = "idle"

OthersOfCall == <<build, ps_pc, ps_size, ps_shift, klimit, c_pc, c_got, c_arg,
                  c_set, c_regot, c_stale, c_intf, lsm_file, rnd>>

KtimeOk ==
    /\ CanCall
    /\ \E ts \in Readings :
          call' = [fn |-> "ktime_get_ns", clk |-> "CLOCK_MONOTONIC", rc |-> 0,
                   errno |-> "none", ts |-> ts, res |-> KtimeOf(build, ts), prev |-> PrevKtime]
    /\ UNCHANGED OthersOfCall

KtimeFail ==
    /\ CanCall
    /\ \E e \in ClockErrnos :
          call' = [fn |-> "ktime_get_ns", clk |-> "CLOCK_MONOTONIC", rc |-> -1,
                   errno |-> e, ts |-> ZeroedTimespec,
                   res |-> ktime_get_ns(build, -1, ZeroedTimespec, e),
                   prev |-> PrevKtime]
    /\ UNCHANGED OthersOfCall

(***************************************************************************)
(* SysConfig: sysconf, get_clk_tck, page_size, page_shift                  *)
(***************************************************************************)
\* values libc::sysconf may return for a supported variable (any c_long
\* other than -1): 0, 1, 2, 3, 4096, 4097, 16384, 65536, 2^62, 2^62 + 1,
\* i64::MAX, i64::MIN, -2
SysconfValues ==
    { {}, {0}, {1}, {0, 1}, {12}, {0, 12}, {14}, {16}, {62}, {0, 62},
      0..62, {63}, 1..63 }

SysconfErrnos == {"EINVAL"}

\* iterations of the doubling loop that are followed
MaxLoopSteps == 70

sysconf(v, errno) == IF v = MinusOne THEN Err(errno) ELSE Ok(v)

get_clk_tck(v, errno) == sysconf(v, errno)

page_size(v, errno) == sysconf(v, errno)

\* `1 << page_shift` on i64 in a release build: the shift amount is masked
\* to the width
OneShl(n) == {n % Bits}

\* the loop condition `(1 << page_shift) < page_size`
LoopCond(n, size) == SLt(OneShl(n), size)

\* the shift panics ("attempt to shift left with overflow")
ShiftPanics(bld, n) == bld = "debug" /\ n >= Bits

SysCall(fn, v, e, r) == [fn |-> fn, v |-> v, errno |-> e, res |-> r]

OthersOfSysconf == <<build, ps_pc, ps_size, ps_shift, klimit, c_pc, c_got,
                     c_arg, c_set, c_regot, c_stale, c_intf, lsm_file, rnd>>

GetClkTckOk ==
    /\ CanCall
    /\ \E v \in SysconfValues :
          call' = SysCall("get_clk_tck", v, "none", get_clk_tck(v, "none"))
    /\ UNCHANGED OthersOfSysconf

GetClkTckFail ==
    /\ CanCall
    /\ \E e \in SysconfErrnos :
          call' = SysCall("get_clk_tck", MinusOne, e, get_clk_tck(MinusOne, e))
    /\ UNCHANGED OthersOfSysconf

PageSizeOk ==
    /\ CanCall
    /\ \E v \in SysconfValues :
          call' = SysCall("page_size", v, "none", page_size(v, "none"))
    /\ UNCHANGED OthersOfSysconf

PageSizeFail ==
    /\ CanCall
    /\ \E e \in SysconfErrnos :
          call' = SysCall("page_size", MinusOne, e, page_size(MinusOne, e))
    /\ UNCHANGED OthersOfSysconf

OthersOfPageShift == <<build, klimit, c_pc, c_got, c_arg, c_set, c_regot,
                       c_stale, c_intf, lsm_file, rnd>>

\* `let page_size = page_size()?;` returns the error
PageShiftErr ==
    /\ CanCall
    /\ \E e \in SysconfErrnos :
          call' = SysCall("page_shift", MinusOne, e, page_size(MinusOne, e))
    /\ UNCHANGED <<ps_pc, ps_size, ps_shift>>
    /\ UNCHANGED OthersOfPageShift

\* `let page_size = page_size()?; let mut page_shift = 0u64;`
PageShiftEnter ==
    /\ CanCall
    /\ \E v \in SysconfValues :
          /\ call' = SysCall("page_shift", v, "none", Pending)
          /\ ps_size' = page_size(v, "none").val
    /\ ps_pc' = "loop"
    /\ ps_shift' = 0
    /\ UNCHANGED OthersOfPageShift

\* the loop condition holds: `page_shift += 1`
PageShiftLoop ==
    /\ ps_pc = "loop"
    /\ ~ShiftPanics(build, ps_shift)
    /\ LoopCond(ps_shift, ps_size)
    /\ ps_shift < MaxLoopSteps
    /\ ps_shift' = ps_shift + 1
    /\ UNCHANGED <<call, ps_pc, ps_size>>
    /\ UNCHANGED OthersOfPageShift

\* the loop condition fails: `Ok(page_shift)`
PageShiftReturn ==
    /\ ps_pc = "loop"
    /\ ~ShiftPanics(build, ps_shift)
    /\ ~LoopCond(ps_shift, ps_size)
    /\ call' = [call EXCEPT !.res = Ok(ps_shift)]
    /\ ps_pc' = "idle"
    /\ ps_size' = {}
    /\ ps_shift' = 0
    /\ UNCHANGED OthersOfPageShift

\* evaluating `1 << page_shift` panics
PageShiftPanic ==
    /\ ~Panicked
    /\ ps_pc = "loop"
    /\ ShiftPanics(build, ps_shift)
    /\ call' = [call EXCEPT !.res = Panic]
    /\ UNCHANGED <<ps_pc, ps_size, ps_shift>>
    /\ UNCHANGED OthersOfPageShift

(***************************************************************************)
(* ProcessControl: kill                                                    *)
(***************************************************************************)
Pids == {1, 4242}
Signals == {0, 9, 15}
KillErrnos == {"ESRCH", "EPERM", "EINVAL"}

kill(rc, errno) == IF rc = -1 THEN Err(errno) ELSE Ok("unit")

KillCall(pid, sig, rc, e) ==
    [fn |-> "kill", pid |-> pid, sig |-> sig, rc |-> rc, errno |-> e,
     res |-> kill(rc, e)]

KillOk ==
    /\ CanCall
    /\ \E pid \in Pids, sig \in Signals : call' = KillCall(pid, sig, 0, "none")
    /\ UNCHANGED OthersOfCall

KillFail ==
    /\ CanCall
    /\ \E pid \in Pids, sig \in Signals, e \in KillErrnos :
          call' = KillCall(pid, sig, -1, e)
    /\ UNCHANGED OthersOfCall

(***************************************************************************)
(* ResourceLimits: getrlimit, setrlimit, and the kernel's limit table      *)
(***************************************************************************)
\* largest limit value followed
MaxLim == 2

\* resource ids a caller passes: RLIMIT_NOFILE, and RLIM_NLIMITS (invalid)
Resources == {7, 16}
KernelResources == {7}

Rlimit(cur, max) == [rlim_cur |-> cur, rlim_max |-> max]
AllPairs == [rlim_cur : 0..MaxLim, rlim_max : 0..MaxLim]
\* the kernel keeps soft <= hard
KernelPairs == {p \in AllPairs : p.rlim_cur <= p.rlim_max}

\* the kernel's getrlimit: writes the pair through the pointer on success
KGetrlimit(k, resource, rlim) ==
    IF resource \in DOMAIN k
    THEN [rc |-> 0, errno |-> "none", rlim |-> k[resource]]
    ELSE [rc |-> -1, errno |-> "EINVAL", rlim |-> rlim]

\* the kernel's setrlimit
KSetrlimit(k, resource, new, privileged) ==
    IF resource \notin DOMAIN k \/ new.rlim_cur > new.rlim_max
    THEN [rc |-> -1, errno |-> "EINVAL", k |-> k]
    ELSE IF new.rlim_max > k[resource].rlim_max /\ ~privileged
    THEN [rc |-> -1, errno |-> "EPERM", k |-> k]
    ELSE [rc |-> 0, errno |-> "none", k |-> [k EXCEPT ![resource] = new]]

\* a variant that returns its zero-initialised local instead of what the
\* kernel wrote
getrlimit_stale(k, resource) ==
    LET kr == KGetrlimit(k, resource, Rlimit(0, 0))
    IN IF kr.rc # 0 THEN Err(kr.errno) ELSE Ok(Rlimit(0, 0))

getrlimit(k, resource) ==
    LET kr == KGetrlimit(k, resource, Rlimit(0, 0))
    IN IF kr.rc # 0 THEN Err(kr.errno) ELSE Ok(kr.rlim)

setrlimit_inverted(kr) == IF kr.rc = 0 THEN Err(kr.errno) ELSE Ok("unit")

setrlimit(kr) == IF kr.rc # 0 THEN Err(kr.errno) ELSE Ok("unit")

OthersOfRlimitCall == <<build, ps_pc, ps_size, ps_shift, c_pc, c_got, c_arg,
                        c_set, c_regot, c_stale, c_intf, lsm_file, rnd>>

GetrlimitCall ==
    /\ CanCall
    /\ \E r \in Resources :
          call' = [fn |-> "getrlimit", resource |-> r,
                   kr |-> KGetrlimit(klimit, r, Rlimit(0, 0)),
                   res |-> getrlimit(klimit, r)]
    /\ UNCHANGED klimit
    /\ UNCHANGED OthersOfRlimitCall

SetrlimitCall ==
    /\ CanCall
    /\ \E r \in Resources, new \in AllPairs, priv \in BOOLEAN :
          LET kr == KSetrlimit(klimit, r, new, priv)
          IN /\ call' = [fn |-> "setrlimit", resource |-> r, arg |-> new,
                         kr |-> [rc |-> kr.rc, errno |-> kr.errno],
                         res |-> setrlimit(kr)]
             /\ klimit' = kr.k
    /\ UNCHANGED OthersOfRlimitCall

(***************************************************************************)
(* Two callers doing getrlimit; setrlimit; getrlimit on their own          *)
(***************************************************************************)
Callers == {"A", "B"}

NoResult == [kind |-> "None"]

\* pairs a caller derives from the pair it read
Derived(p) ==
    {q \in AllPairs :
        \/ q = p
        \/ q.rlim_max = p.rlim_max /\ q.rlim_cur \in {p.rlim_cur - 1, p.rlim_cur + 1}
        \/ q.rlim_cur = p.rlim_cur /\ q.rlim_max \in {p.rlim_max - 1, p.rlim_max + 1}}

OthersOfCaller == <<build, call, ps_pc, ps_size, ps_shift, lsm_file, rnd>>

CallerGet(i) ==
    /\ c_pc[i] = "get"
    /\ \E r \in Resources :
          LET res == getrlimit(klimit, r)
          IN /\ c_got' = [c_got EXCEPT ![i] = [resource |-> r, res |-> res]]
             /\ c_pc' = [c_pc EXCEPT ![i] = IF res.kind = "Ok" THEN "set" ELSE "done"]
    /\ UNCHANGED <<klimit, c_arg, c_set, c_regot, c_stale, c_intf>>
    /\ UNCHANGED OthersOfCaller

CallerSet(i) ==
    /\ c_pc[i] = "set"
    /\ \E new \in Derived(c_got[i].res.val), priv \in BOOLEAN :
          LET r == c_got[i].resource
              kr == KSetrlimit(klimit, r, new, priv)
          IN /\ c_arg' = [c_arg EXCEPT ![i] = new]
             /\ c_set' = [c_set EXCEPT ![i] = setrlimit(kr)]
             /\ klimit' = kr.k
             /\ c_stale' = [c_stale EXCEPT ![i] = (klimit[r] # c_got[i].res.val)]
             /\ c_intf' = [j \in Callers |->
                             \/ c_intf[j]
                             \/ j # i /\ c_pc[j] \in {"set", "reget"} /\ kr.k # klimit]
    /\ c_pc' = [c_pc EXCEPT ![i] = "reget"]
    /\ UNCHANGED <<c_got, c_regot>>
    /\ UNCHANGED OthersOfCaller

CallerReget(i) ==
    /\ c_pc[i] = "reget"
    /\ c_regot' = [c_regot EXCEPT ![i] = getrlimit(klimit, c_got[i].resource)]
    /\ c_pc' = [c_pc EXCEPT ![i] = "done"]
    /\ UNCHANGED <<klimit, c_got, c_arg, c_set, c_stale, c_intf>>
    /\ UNCHANGED OthersOfCaller

(***************************************************************************)
(* SecurityModuleProbe: is_bpf_lsm_enabled                                 *)
(***************************************************************************)
\* longest generated file content
MaxLen == 4

Chars == {"b", "p", "f", ",", "x", "\n"}

Bpf == <<"b", "p", "f">>

\* "lockdown,bpf,yama" and "lockdown,yama"
LockdownBpfYama ==
    <<"l", "o", "c", "k", "d", "o", "w", "n", ",", "b", "p", "f", ",",
      "y", "a", "m", "a">>
LockdownYama ==
    <<"l", "o", "c", "k", "d", "o", "w", "n", ",", "y", "a", "m", "a">>

Contents ==
    UNION {[1..n -> Chars] : n \in 0..MaxLen}
        \cup {LockdownBpfYama, LockdownYama, <<"x", "x", ",", "b", "p", "f">>}

\* what fs::read_to_string("/sys/kernel/security/lsm") finds
LsmFiles ==
    {[ok |-> TRUE, data |-> c, errno |-> "none"] : c \in Contents}
        \cup {[ok |-> FALSE, data |-> << >>, errno |-> e] : e \in {"ENOENT", "EACCES"}}

RECURSIVE SplitFrom(_, _, _)
SplitFrom(s, i, cur) ==
    IF i > Len(s) THEN <<cur>>
    ELSE IF s[i] = "," THEN <<cur>> \o SplitFrom(s, i + 1, << >>)
    ELSE SplitFrom(s, i + 1, Append(cur, s[i]))

\* a split that loses the piece after the last comma
SplitDropLast(s) ==
    LET all == SplitFrom(s, 1, << >>) IN SubSeq(all, 1, Len(all) - 1)

\* str::split(','): the pieces between commas, empty ones included
Split(s) == SplitFrom(s, 1, << >>)

\* Iterator::any(|s| s == "bpf")
AnyBpf(tokens) == \E k \in DOMAIN tokens : tokens[k] = Bpf

is_bpf_lsm_enabled(file) ==
    IF ~file.ok THEN Err(file.errno) ELSE Ok(AnyBpf(Split(file.data)))

OthersOfLsm == <<build, ps_pc, ps_size, ps_shift, klimit, c_pc, c_got, c_arg,
                 c_set, c_regot, c_stale, c_intf, lsm_file, rnd>>

LsmProbeRead ==
    /\ CanCall
    /\ lsm_file.ok
    /\ call' = [fn |-> "is_bpf_lsm_enabled", res |-> is_bpf_lsm_enabled(lsm_file)]
    /\ UNCHANGED OthersOfLsm

LsmProbeUnreadable ==
    /\ CanCall
    /\ ~lsm_file.ok
    /\ call' = [fn |-> "is_bpf_lsm_enabled", res |-> is_bpf_lsm_enabled(lsm_file)]
    /\ UNCHANGED OthersOfLsm

(***************************************************************************)
(* RandomSource: getrandom::<T>()                                          *)
(***************************************************************************)
\* largest size_of::<T>() followed
MaxSize == 12

\* a byte the kernel wrote
ByteVals == {"rand"}
Uninit == "uninit"

\* what one libc::getrandom(buf, buflen, 0) call may do: fail, or write the
\* first rc <= buflen bytes
KernelRandom(buflen) ==
    {[rc |-> -1, bytes |-> << >>]}
        \cup UNION {{[rc |-> n, bytes |-> b] : b \in [1..n -> ByteVals]} : n \in 0..buflen}

\* MaybeUninit::<T>::uninit() after the kernel wrote `bytes` at its start
Filled(buflen, bytes) ==
    [k \in 1..buflen |-> IF k <= Len(bytes) THEN bytes[k] ELSE Uninit]

\* a variant that asks again after a short read
getrandom_retry(buflen, kr) ==
    IF kr[1].rc = -1 THEN [calls |-> 1, rc |-> -1, res |-> Err("CallFailure")]
    ELSE IF kr[1].rc # buflen
    THEN [calls |-> 2, rc |-> kr[2].rc,
          res |-> IF kr[2].rc = buflen THEN Ok(Filled(buflen, kr[2].bytes))
                  ELSE Err("PartiallyRandomized")]
    ELSE [calls |-> 1, rc |-> kr[1].rc, res |-> Ok(Filled(buflen, kr[1].bytes))]

\* a variant that only tests the call for failure
getrandom_unchecked(buflen, kr) ==
    IF kr[1].rc = -1 THEN [calls |-> 1, rc |-> -1, res |-> Err("CallFailure")]
    ELSE [calls |-> 1, rc |-> kr[1].rc, res |-> Ok(Filled(buflen, kr[1].bytes))]

\* kr: what the kernel would answer to the first, second, ... call
getrandom(buflen, kr) ==
    LET rc == kr[1].rc
        t == Filled(buflen, kr[1].bytes)
    IN IF rc = -1 THEN [calls |-> 1, rc |-> rc, res |-> Err("CallFailure")]
       ELSE IF rc # buflen
       THEN [calls |-> 1, rc |-> rc, res |-> Err("PartiallyRandomized")]
       ELSE [calls |-> 1, rc |-> rc, res |-> Ok(t)]

OthersOfRand == <<build, call, ps_pc, ps_size, ps_shift, klimit, c_pc, c_got,
                  c_arg, c_set, c_regot, c_stale, c_intf, lsm_file>>

Getrandom ==
    /\ CanCall
    /\ \E buflen \in 0..MaxSize :
          \E k1 \in KernelRandom(buflen), k2 \in KernelRandom(buflen) :
            LET r == getrandom(buflen, <<k1, k2>>)
            IN rnd' = [buflen |-> buflen, first |-> k1, calls |-> r.calls,
                       rc |-> r.rc, res |-> r.res]
    /\ UNCHANGED OthersOfRand

(***************************************************************************)
(* Specifications                                                          *)
(***************************************************************************)
InitCommon ==
    /\ build \in Builds
    /\ call = Idle
    /\ ps_pc = "idle"
    /\ ps_size = {}
    /\ ps_shift = 0
    /\ c_pc = [i \in Callers |-> "get"]
    /\ c_got = [i \in Callers |-> [resource |-> 7, res |-> NoResult]]
    /\ c_arg = [i \in Callers |-> Rlimit(0, 0)]
    /\ c_set = [i \in Callers |-> NoResult]
    /\ c_regot = [i \in Callers |-> NoResult]
    /\ c_stale = [i \in Callers |-> FALSE]
    /\ c_intf = [i \in Callers |-> FALSE]
    /\ rnd = [buflen |-> 0, first |-> [rc |-> 0, bytes |-> << >>], calls |-> 0,
              rc |-> 0, res |-> NoResult]

DefaultLsm == [ok |-> TRUE, data |-> LockdownYama, errno |-> "none"]

\* the process starts with some valid limit pair and some LSM configuration
Init ==
    /\ InitCommon
    /\ klimit \in [KernelResources -> KernelPairs]
    /\ lsm_file = DefaultLsm

InitLsm ==
    /\ InitCommon
    /\ klimit = [r \in KernelResources |-> Rlimit(1, 2)]
    /\ lsm_file \in LsmFiles

\* one caller using the OS wrappers, one call at a time
Next ==
    \/ KtimeOk \/ KtimeFail
    \/ GetClkTckOk \/ GetClkTckFail
    \/ PageSizeOk \/ PageSizeFail
    \/ PageShiftErr \/ PageShiftEnter \/ PageShiftLoop \/ PageShiftReturn
    \/ PageShiftPanic
    \/ KillOk \/ KillFail
    \/ GetrlimitCall \/ SetrlimitCall

Spec == Init /\ [][Next]_vars

NextRlimit == \E i \in Callers : CallerGet(i) \/ CallerSet(i) \/ CallerReget(i)

SpecRlimit == Init /\ [][NextRlimit]_vars

NextLsm == LsmProbeRead \/ LsmProbeUnreadable

SpecLsm == InitLsm /\ [][NextLsm]_vars

NextRand == Getrandom

InitRand ==
    /\ InitCommon
    /\ klimit = [r \in KernelResources |-> Rlimit(1, 2)]
    /\ lsm_file = DefaultLsm

SpecRand == InitRand /\ [][NextRand]_vars

(***************************************************************************)
(* Properties                                                              *)
(***************************************************************************)
RandDone == rnd.calls > 0

\* C1: getrandom returns Ok only when the kernel call did not fail and wrote
\* exactly size_of::<T>() bytes; the value returned has no uninitialised byte.
C1_NoPartialValue ==
    RandDone /\ rnd.res.kind = "Ok" =>
        /\ rnd.first.rc # -1
        /\ rnd.first.rc = rnd.buflen
        /\ Len(rnd.res.val) = rnd.buflen
        /\ \A k \in 1..rnd.buflen : rnd.res.val[k] # Uninit

\* a value of several bytes was returned
C1_Witness == RandDone /\ rnd.res.kind = "Ok" /\ rnd.buflen >= 4

IsRandErr(r, e) == r.kind = "Err" /\ r.err = e

\* C2: one kernel call per invocation, CallFailure exactly when the call
\* failed, PartiallyRandomized exactly when it succeeded with fewer bytes
\* than requested, and never both.
C2_OneCallTwoKinds ==
    RandDone =>
        /\ rnd.calls = 1
        /\ IsRandErr(rnd.res, "CallFailure") <=> rnd.first.rc = -1
        /\ IsRandErr(rnd.res, "PartiallyRandomized")
              <=> (rnd.first.rc # -1 /\ rnd.first.rc < rnd.buflen)
        /\ rnd.res.kind = "Err" => rnd.res.err \in {"CallFailure", "PartiallyRandomized"}
        /\ rnd.res.kind \in {"Ok", "Err"}

\* a short read was reported
C2_Witness ==
    RandDone /\ IsRandErr(rnd.res, "PartiallyRandomized") /\ rnd.first.rc >= 2

\* the smallest n with 2^n >= p, p read as a signed 64-bit integer
SmallestN(p) ==
    IF p = {} \/ IsNeg(p) THEN 0
    ELSE IF Cardinality(p) = 1 THEN SetMax(p)
    ELSE SetMax(p) + 1

PageShiftCalled == call.fn = "page_shift" /\ call.v # MinusOne

\* C3: for every page size p that page_size() returns, page_shift() returns
\* the smallest n with 2^n >= p, reached by doubling from 0; so
\* 2^page_shift() = p when p is a power of two.
C3_SmallestShift ==
    PageShiftCalled =>
        /\ call.res.kind \in {"Pending", "Ok"}
        /\ ps_pc = "loop" => ps_shift <= SmallestN(call.v)
        /\ call.res.kind = "Ok" =>
              /\ call.res.val = SmallestN(call.v)
              /\ Cardinality(call.v) = 1 /\ ~IsNeg(call.v) => {call.res.val} = call.v

CallerRoundDone(i) == c_pc[i] = "done" /\ c_got[i].res.kind = "Ok"

\* C4: getrlimit returning P, then setrlimit with P, with no other actor
\* changing the limit in between, succeeds and a following getrlimit
\* returns P again.
C4_GetSetGet ==
    \A i \in Callers :
        CallerRoundDone(i) /\ c_arg[i] = c_got[i].res.val /\ ~c_intf[i] =>
            /\ c_set[i].kind = "Ok"
            /\ c_regot[i].kind = "Ok"
            /\ c_regot[i].val = c_got[i].res.val

\* a caller wrote back the pair it read, undisturbed
C4_Witness ==
    \E i \in Callers :
        /\ CallerRoundDone(i) /\ c_arg[i] = c_got[i].res.val /\ ~c_intf[i]
        /\ c_got[i].res.val = Rlimit(1, 2)

\* what a getrlimit answered with kernel table k in force
AnswersFrom(k, resource, res) ==
    IF resource \in KernelResources
    THEN res.kind = "Ok" /\ res.val = k[resource]
    ELSE res.kind = "Err"

\* C5: every getrlimit returns the kernel's pair as it is at the moment of
\* the call (nothing is cached); the pair of calls is not atomic, so a
\* caller can act on a stale pair and overwrite the other's update.
C5_GetReturnsCurrent ==
    [][\A i \in Callers :
          /\ c_pc[i] = "get" /\ c_pc'[i] # "get"
                => AnswersFrom(klimit, c_got'[i].resource, c_got'[i].res)
          /\ c_pc[i] = "reget" /\ c_pc'[i] = "done"
                => AnswersFrom(klimit, c_got[i].resource, c_regot'[i])]_vars

\* lost update: both read the same pair, i changed it, j then wrote a pair
\* derived from the stale one, and j's pair is in force
C5_Witness ==
    \E i, j \in Callers :
        /\ i # j
        /\ CallerRoundDone(i) /\ CallerRoundDone(j)
        /\ c_got[i].res.val = c_got[j].res.val
        /\ c_set[i].kind = "Ok" /\ c_set[j].kind = "Ok"
        /\ c_arg[i] # c_got[i].res.val
        /\ c_stale[j] /\ ~c_stale[i]
        /\ c_arg[j] # c_arg[i]
        /\ klimit[c_got[j].resource] = c_arg[j]

\* "bpf" stands in the content between commas or the ends of the content
HasBpfToken(c) ==
    \E i \in 1..(Len(c) - 2) :
        /\ SubSeq(c, i, i + 2) = Bpf
        /\ i = 1 \/ c[i - 1] = ","
        /\ i + 2 = Len(c) \/ c[i + 3] = ","

LsmProbed == call.fn = "is_bpf_lsm_enabled"

\* C6: is_bpf_lsm_enabled is Ok(true) exactly when a comma-separated token
\* of the file equals "bpf", at any position, the last included, Ok(false)
\* when none does, and Err when the file cannot be read.
C6_BpfToken ==
    LsmProbed =>
        /\ ~lsm_file.ok => call.res.kind = "Err" /\ call.res.err = lsm_file.errno
        /\ lsm_file.ok =>
              /\ call.res.kind = "Ok"
              /\ call.res.val = HasBpfToken(lsm_file.data)
              /\ lsm_file.data = LockdownBpfYama => call.res.val
              /\ lsm_file.data = LockdownYama => ~call.res.val

\* "bpf" found in the last position
C6_Witness ==
    /\ LsmProbed
    /\ lsm_file.data = <<"x", "x", ",", "b", "p", "f">>
    /\ call.res.kind = "Ok" /\ call.res.val

\* tv_sec * 1_000_000_000 + tv_nsec, exactly
ExactNs(ts) == Add(Mul(ts.tv_sec, BitsOf(NSEC_PER_SEC)), ts.tv_nsec)

\* reading a is not later than reading b
TsLe(a, b) ==
    \/ SLt(a.tv_sec, b.tv_sec)
    \/ a.tv_sec = b.tv_sec /\ ~SLt(b.tv_nsec, a.tv_nsec)

\* C8: a successful ktime_get_ns reads the monotonic clock and returns
\* tv_sec * 1_000_000_000 + tv_nsec, and of two successful calls the one
\* with the later kernel reading returns the larger or equal count.
C8_Monotonic ==
    call.fn = "ktime_get_ns" /\ call.res.kind = "Ok" =>
        /\ call.clk = "CLOCK_MONOTONIC"
        /\ call.res.val = ExactNs(call.ts)
        /\ call.prev # << >> /\ TsLe(call.prev[1].ts, call.ts)
              => ~ULt(call.res.val, call.prev[1].res)

IsErr(r, e) == r.kind = "Err" /\ r.err = e

\* C9: every OS wrapper returns Err with the OS error when the underlying
\* call reports failure and Ok otherwise; page_shift hands on page_size's
\* error without computing a shift; kill succeeds with Ok(()); nothing
\* terminates the process.
C9_ErrIffFailure ==
    /\ call.res.kind # "Panic"
    /\ call.fn = "ktime_get_ns" =>
          IF call.rc # 0 THEN IsErr(call.res, call.errno) ELSE call.res.kind = "Ok"
    /\ call.fn \in {"get_clk_tck", "page_size"} =>
          IF call.v = MinusOne THEN IsErr(call.res, call.errno)
          ELSE call.res.kind = "Ok" /\ call.res.val = call.v
    /\ call.fn = "page_shift" =>
          IF call.v = MinusOne THEN IsErr(call.res, call.errno) /\ ps_pc = "idle"
          ELSE call.res.kind \in {"Pending", "Ok"}
    /\ call.fn = "kill" =>
          IF call.rc # 0 THEN IsErr(call.res, call.errno)
          ELSE call.res.kind = "Ok" /\ call.res.val = "unit"
    /\ call.fn \in {"getrlimit", "setrlimit"} =>
          IF call.kr.rc # 0 THEN IsErr(call.res, call.kr.errno)
          ELSE call.res.kind = "Ok"

\* C10: page_shift ends with a result for every value page_size() can
\* return: the loop never evaluates `1 << page_shift` with page_shift >= 64
\* and never runs past the width of the integer.
C10_NoShiftOverflow ==
    /\ ps_pc = "loop" => ps_shift < Bits
    /\ call.fn = "page_shift" => call.res.kind # "Panic"

====
